---------------------------- MODULE Spec2Model ----------------------------
(***************************************************************************)
(* Model of mountain_snail (src/src/main.rs, src/src/utils.rs): the hiking  *)
(* time calculator.  main() asks for the input type and the speed           *)
(* adjustement, then runs either analyse_gpx -> read_gpx (statistics over   *)
(* the consecutive waypoint pairs of a track) or analyse_by_splits ->       *)
(* calculate_travel_time (one duration per split, then a running total).    *)
(*                                                                         *)
(* Numbers.  f64 values that take part in slope_speed are modelled by       *)
(* tagged values: a finite value in fixed point (thousandths, Scale), the   *)
(* IEEE specials +inf, -inf and NaN, and "huge" (a finite positive value of *)
(* at least e^45, whose product with any distance of a metre or more        *)
(* exceeds u64::MAX).  Elevations, ascent and descent are whole metres,     *)
(* the kilometres of distance_3d are held in thousandths, durations and     *)
(* instants in whole seconds.  u64::MAX, f64::MAX and the largest           *)
(* OffsetDateTime are stand-ins far above every other value of the model,   *)
(* so that the code's comparisons, saturating casts and checked additions   *)
(* behave as in Rust.  The i32 subtraction of calculate_travel_time and the *)
(* f32 to f64 widening of the adjustement are exact on the model's inputs.  *)
(***************************************************************************)
EXTENDS Integers, Sequences, FiniteSets

\* ---------------------------------------------------------------- bounds
\* A track's segments and points number at most MaxTrackSize together.
MaxTrackSize == 6

\* A splits file holds at most MaxSplits splits.
MaxSplits == 3

\* ------------------------------------------------------- numeric domain
Scale == 1000

U64_MAX == 1000000000

F64_MAX == 999999

DATE_MAX == 500000000

EXP_OVERFLOW == 709782

EXP_HUGE == 45000

Fin(v) == [k |-> "fin", v |-> v]

PInf == [k |-> "pinf", v |-> 0]

NInf == [k |-> "ninf", v |-> 0]

NaN == [k |-> "nan", v |-> 0]

Huge == [k |-> "huge", v |-> 0]

\* a / b rounded to the nearest integer (b # 0): the fixed-point image of an
\* f64 division or multiplication that is correctly rounded.
DivRound(a, b) ==
    IF b > 0 THEN (2 * a + b) \div (2 * b)
    ELSE (2 * (-a) + (-b)) \div (2 * (-b))

\* f64 division of two whole numbers (delta_elevation / distance).
F64Div(a, b) ==
    IF b = 0
    THEN IF a > 0 THEN PInf ELSE IF a < 0 THEN NInf ELSE NaN
    ELSE Fin(DivRound(a * Scale, b))

\* f64 addition.
F64Add(x, y) ==
    CASE x.k = "nan" \/ y.k = "nan" -> NaN
      [] x.k = "pinf" -> IF y.k = "ninf" THEN NaN ELSE PInf
      [] x.k = "ninf" -> IF y.k = "pinf" THEN NaN ELSE NInf
      [] y.k = "pinf" -> PInf
      [] y.k = "ninf" -> NInf
      [] OTHER -> Fin(x.v + y.v)

\* f64 multiplication by a positive literal num/den (3.5, 0.6).
F64Scale(num, den, x) ==
    IF x.k = "fin" THEN Fin(DivRound(num * x.v, den)) ELSE x

\* e^x for a finite x >= 0 in thousandths: the power series, summed until the
\* terms vanish at the model's resolution.
RECURSIVE ExpSeries(_, _, _, _)
ExpSeries(x, term, n, sum) ==
    IF term = 0 THEN sum
    ELSE LET next == DivRound(term * x, n * Scale)
         IN  ExpSeries(x, next, n + 1, sum + next)

\* f64::exp.  A finite x of 45 or more gives "huge", one above 709.78 +inf,
\* one of -45 or less a value that rounds to 0 whatever it multiplies; between
\* these the series is summed (the inputs of the model keep such an x within
\* -4 .. 4, where the result agrees with f64 to the second).
F64Exp(x) ==
    CASE x.k = "nan" -> NaN
      [] x.k = "pinf" -> PInf
      [] x.k = "ninf" -> Fin(0)
      [] x.k = "huge" -> PInf
      [] OTHER ->
           IF x.v > EXP_OVERFLOW THEN PInf
           ELSE IF x.v >= EXP_HUGE THEN Huge
           ELSE IF x.v <= -EXP_HUGE THEN Fin(0)
           ELSE IF x.v >= 0 THEN Fin(ExpSeries(x.v, Scale, 1, Scale))
           ELSE Fin(DivRound(Scale * Scale, ExpSeries(-x.v, Scale, 1, Scale)))

\* f64 multiplication by a whole number (segment_speed * distance).  The
\* result is in thousandths of a second.
F64MulInt(x, d) ==
    CASE x.k = "nan" -> NaN
      [] x.k = "fin" -> Fin(x.v * d)
      [] d = 0 -> IF x.k = "huge" THEN Fin(0) ELSE NaN
      [] x.k = "ninf" -> IF d > 0 THEN NInf ELSE PInf
      [] x.k = "pinf" -> IF d > 0 THEN PInf ELSE NInf
      [] OTHER -> IF d > 0 THEN Huge ELSE NInf

\* f64::round followed by `as u64`: half away from zero, then the saturating
\* cast (NaN and negatives to 0, anything above u64::MAX to u64::MAX).
F64RoundAsU64(x) ==
    CASE x.k = "nan" -> 0
      [] x.k = "ninf" -> 0
      [] x.k = "pinf" -> U64_MAX
      [] x.k = "huge" -> U64_MAX
      [] OTHER -> IF x.v <= 0 THEN 0
                  ELSE LET r == (2 * x.v + Scale) \div (2 * Scale)
                       IN  IF r > U64_MAX THEN U64_MAX ELSE r

\* slope_speed as it would be if every segment were charged a second at least
\* (seconds.max(1)).
slope_speedAtLeastOne(delta_elevation, distance, formula_adjustement) ==
    LET segment_speed ==
            F64Scale(6, 10,
                F64Exp(F64Scale(35, 10,
                    F64Add(F64Div(delta_elevation, distance), formula_adjustement))))
        seconds == F64RoundAsU64(F64MulInt(segment_speed, distance))
    IN  IF seconds < 1 THEN 1 ELSE seconds

\* utils.rs slope_speed: the duration, in whole seconds.
slope_speed(delta_elevation, distance, formula_adjustement) ==
    LET segment_speed ==
            F64Scale(6, 10,
                F64Exp(F64Scale(35, 10,
                    F64Add(F64Div(delta_elevation, distance), formula_adjustement))))
        seconds == F64RoundAsU64(F64MulInt(segment_speed, distance))
    IN  seconds

\* ------------------------------------------------------------- options
\* Option<T>: None is the empty sequence, Some(v) the one-element sequence.
None == <<>>

Some(v) == <<v>>

IsSome(o) == o # <<>>

Unwrap(o) == o[1]

\* ------------------------------------------------------------- inputs
\* Waypoint elevations of the input tracks, in metres (one below zero).
Elevations == {-4, 2}

\* gpx::Waypoint: the fields read_gpx uses.  Input waypoints carry no time.
Waypoints == {[elevation |-> e, time |-> None] : e \in {None} \cup {Some(v) : v \in Elevations}}

\* Segments of exactly k points.
SegmentsOf(k) == [1..k -> Waypoints]

\* gpx::Track.segments: the tracks whose segments and points number at most
\* size together.
RECURSIVE TracksOf(_)
TracksOf(size) ==
    IF size = 0 THEN {<<>>}
    ELSE {<<>>} \cup
         UNION {{<<first>> \o rest : first \in SegmentsOf(k), rest \in TracksOf(size - 1 - k)} :
                k \in 0..(size - 1)}

Tracks == TracksOf(MaxTrackSize)

\* What vincenty_core::distance_from_coords can answer for a pair: a failure,
\* or a distance in thousandths of a kilometre (here 0.01 km).
Distances == {10}

DistanceResults == {None} \cup {Some(d) : d \in Distances}

\* The instant OffsetDateTime::now_utc() returns, in seconds.
StartInstants == {1000}

\* Texts typed at the "Walking speed adjustement" prompt.
AdjustementTexts == {"abc", "-0.5", "inf"}

\* Texts typed at the "Splits (meters)" prompt.
SplitLengthTexts == {"abc", "-10", "0", "10"}

\* Entries of the splits file: (ascent, descent) in metres.
SplitValues == {<<5, 0>>, <<0, 3>>, <<2, 2>>, <<1000, 0>>}

SplitLists == UNION {[1..n -> SplitValues] : n \in 0..MaxSplits}

\* str::parse::<f32>: Some(value) or None for an error.
ParseF32(text) ==
    CASE text = "-0.5" -> Some(Fin(-500))
      [] text = "inf" -> Some(PInf)
      [] OTHER -> None

\* str::parse::<i32>: Some(value) or None for an error.
ParseI32(text) ==
    CASE text = "-10" -> Some(-10)
      [] text = "0" -> Some(0)
      [] text = "10" -> Some(10)
      [] OTHER -> None

\* ------------------------------------------------------------- state
VARIABLES
    pc,                 \* position in main
    is_gpx_file,        \* main: get_path().0
    speed_adjustement,  \* main: get_speed_adjustement()
    validation_error,   \* a prompt has refused an input (validate_with)
    stdout,             \* the printed lines the claims are about
    track,              \* analyse_gpx: the chosen track (times rewritten)
    edit_track_times,   \* analyse_gpx: the "Add time to GPX points ?" answer
    now,                \* read_gpx locals ...
    seg,
    i,
    d_plus,
    d_minus,
    max_height,
    min_height,
    average_altitude,
    track_length,
    duration,
    calls,              \* history: the distance_3d calls made, in order
    stats,              \* analyse_gpx: the PathStats read_gpx returned
    splits_length,      \* analyse_by_splits locals ...
    splits,
    times,
    total_time,
    split_number,
    n                   \* position of the reporting loop in times

mainVars == <<is_gpx_file, speed_adjustement, validation_error>>

gpxVars == <<track, edit_track_times, now, seg, i, d_plus, d_minus, max_height,
             min_height, average_altitude, track_length, duration, calls, stats>>

splitVars == <<splits_length, splits, times, total_time, split_number, n>>

vars == <<pc, mainVars, stdout, gpxVars, splitVars>>

\* ------------------------------------------------------------- main
Init ==
    /\ pc = "main"
    /\ is_gpx_file = FALSE
    /\ speed_adjustement = Fin(0)
    /\ validation_error = FALSE
    /\ stdout = <<>>
    /\ track = <<>>
    /\ edit_track_times = FALSE
    /\ now = 0
    /\ seg = 1
    /\ i = 1
    /\ d_plus = 0
    /\ d_minus = 0
    /\ max_height = 0
    /\ min_height = 0
    /\ average_altitude = [n |-> 0, e |-> 0]
    /\ track_length = 0
    /\ duration = 0
    /\ calls = <<>>
    /\ stats = None
    /\ splits_length = 0
    /\ splits = <<>>
    /\ times = <<>>
    /\ total_time = 0
    /\ split_number = <<0, 1>>
    /\ n = 1

\* main.rs get_path: the "Type" menu decides between GPX and JSON splits.
get_path ==
    /\ pc = "main"
    /\ \E choice \in BOOLEAN : is_gpx_file' = choice
    /\ pc' = "get_speed_adjustement"
    /\ UNCHANGED <<speed_adjustement, validation_error, stdout, gpxVars, splitVars>>

\* main.rs impl From<usize> for Terrain.
TerrainFrom(value) ==
    CASE value = 0 -> "Road"
      [] value = 1 -> "Path"
      [] value = 2 -> "Track"
      [] value = 3 -> "Alpine"
      [] OTHER -> "Unknown"

\* main.rs get_speed_adjustement: the preset of a terrain, in thousandths.
TerrainAdjustement(terrain) ==
    CASE terrain = "Road" -> Fin(50)
      [] terrain = "Path" -> Fin(80)
      [] terrain = "Track" -> Fin(175)
      [] terrain = "Alpine" -> Fin(280)

\* main.rs get_speed_adjustement with get_terrain: the menu of five choices
\* (road, path, track, alpine, manual); "manual" opens the free-form prompt.
get_speed_adjustement ==
    /\ pc = "get_speed_adjustement"
    /\ \E selection \in 0..4 :
          LET terrain == TerrainFrom(selection)
          IN  IF terrain = "Unknown"
              THEN /\ pc' = "manual_adjustement"
                   /\ UNCHANGED speed_adjustement
              ELSE /\ pc' = "analyse"
                   /\ speed_adjustement' = TerrainAdjustement(terrain)
    /\ UNCHANGED <<is_gpx_file, validation_error, stdout, gpxVars, splitVars>>

\* main.rs get_speed_adjustement, Terrain::Unknown: the prompt refuses a text
\* that does not parse as f32 and asks again; any text that parses is taken.
manual_adjustement ==
    /\ pc = "manual_adjustement"
    /\ \E text \in AdjustementTexts :
          LET result == ParseF32(text)
          IN  IF IsSome(result)
              THEN /\ speed_adjustement' = Unwrap(result)
                   /\ pc' = "analyse"
                   /\ UNCHANGED validation_error
              ELSE /\ validation_error' = TRUE
                   /\ UNCHANGED <<speed_adjustement, pc>>
    /\ UNCHANGED <<is_gpx_file, stdout, gpxVars, splitVars>>

\* ------------------------------------------------------------- read_gpx
\* average_altitude is an exact dyadic rational n / 2^e, kept in lowest terms.
RECURSIVE Lowest(_)
Lowest(r) ==
    IF r.e > 0 /\ r.n % 2 = 0 THEN Lowest([n |-> r.n \div 2, e |-> r.e - 1]) ELSE r

\* utils.rs read_gpx line 85: (average_altitude + b_elevation) / 2.
AverageStep(average, b_elevation) ==
    Lowest([n |-> average.n + b_elevation * 2^average.e, e |-> average.e + 1])

\* ElevationUpdate as it would be with unwrap_or(0.) for a missing elevation.
ElevationUpdateMissingAsZero(a_elevation, b_elevation, acc) ==
    LET a == IF IsSome(a_elevation) THEN Unwrap(a_elevation) ELSE 0
        b == IF IsSome(b_elevation) THEN Unwrap(b_elevation) ELSE 0
    IN  [d_plus |-> IF b > a THEN acc.d_plus + (b - a) ELSE acc.d_plus,
         d_minus |-> IF b > a THEN acc.d_minus ELSE acc.d_minus + (a - b),
         max_height |-> IF acc.max_height < b THEN b ELSE acc.max_height,
         min_height |-> IF acc.min_height > b THEN b ELSE acc.min_height,
         average_altitude |-> AverageStep(acc.average_altitude, b),
         delta_elevation |-> b - a]

\* ElevationUpdate as it would be without the `else` of line 73: d_minus takes
\* a_elevation - b_elevation of every pair.
ElevationUpdateNoElse(a_elevation, b_elevation, acc) ==
    IF IsSome(b_elevation) /\ IsSome(a_elevation)
    THEN LET a == Unwrap(a_elevation)
             b == Unwrap(b_elevation)
         IN  [d_plus |-> IF b > a THEN acc.d_plus + (b - a) ELSE acc.d_plus,
              d_minus |-> acc.d_minus + (a - b),
              max_height |-> IF acc.max_height < b THEN b ELSE acc.max_height,
              min_height |-> IF acc.min_height > b THEN b ELSE acc.min_height,
              average_altitude |-> AverageStep(acc.average_altitude, b),
              delta_elevation |-> b - a]
    ELSE [d_plus |-> acc.d_plus,
          d_minus |-> acc.d_minus,
          max_height |-> acc.max_height,
          min_height |-> acc.min_height,
          average_altitude |-> acc.average_altitude,
          delta_elevation |-> 0]

\* utils.rs read_gpx lines 65-86: what a measured pair does to the elevation
\* accumulators, and the delta it hands to slope_speed.
ElevationUpdate(a_elevation, b_elevation, acc) ==
    IF IsSome(b_elevation) /\ IsSome(a_elevation)
    THEN LET a == Unwrap(a_elevation)
             b == Unwrap(b_elevation)
         IN  [d_plus |-> IF b > a THEN acc.d_plus + (b - a) ELSE acc.d_plus,
              d_minus |-> IF b > a THEN acc.d_minus ELSE acc.d_minus + (a - b),
              max_height |-> IF acc.max_height < b THEN b ELSE acc.max_height,
              min_height |-> IF acc.min_height > b THEN b ELSE acc.min_height,
              average_altitude |-> AverageStep(acc.average_altitude, b),
              delta_elevation |-> b - a]
    ELSE [d_plus |-> acc.d_plus,
          d_minus |-> acc.d_minus,
          max_height |-> acc.max_height,
          min_height |-> acc.min_height,
          average_altitude |-> acc.average_altitude,
          delta_elevation |-> 0]

\* The elevation accumulators of read_gpx, as ElevationUpdate takes them.
Accumulators ==
    [d_plus |-> d_plus, d_minus |-> d_minus, max_height |-> max_height,
     min_height |-> min_height, average_altitude |-> average_altitude]

\* utils.rs read_gpx line 92: distance * 1000.0, kilometres to metres.  The
\* model holds a distance in thousandths of a kilometre.
Metres(distance) == (distance * 1000) \div Scale

\* utils.rs read_gpx line 89: now + duration; None when the sum is past the
\* largest OffsetDateTime (the addition panics).
InstantPlus(instant, d) ==
    IF instant + d > DATE_MAX THEN None ELSE Some(instant + d)

\* Duration += Duration: None when the seconds overflow u64 (the addition
\* panics with "overflow when adding durations").
DurationPlus(d, e) ==
    IF d + e > U64_MAX THEN None ELSE Some(d + e)

\* utils.rs read_gpx line 95: the line printed for a pair that has no distance.
FailureLine(a, b) == [kind |-> "failed", a |-> a, b |-> b]

\* The record of one distance_3d call: the pair and the answer.
Call(s, a, b, result) == [seg |-> s, a |-> a, b |-> b, result |-> result]

\* ReadGpxEnter as it would be with the locals taken from PathStats::default():
\* min_height starts at 0.
ReadGpxEnterDefault(t, edit, instant) ==
    /\ track' = t
    /\ edit_track_times' = edit
    /\ now' = instant
    /\ d_plus' = 0
    /\ d_minus' = 0
    /\ max_height' = 0
    /\ min_height' = 0
    /\ average_altitude' = [n |-> 0, e |-> 0]
    /\ track_length' = 0
    /\ duration' = 0
    /\ seg' = 1
    /\ i' = 1
    /\ calls' = <<>>
    /\ UNCHANGED stats

\* utils.rs read_gpx lines 39-53: the locals before the first segment.
ReadGpxEnter(t, edit, instant) ==
    /\ track' = t
    /\ edit_track_times' = edit
    /\ now' = instant
    /\ d_plus' = 0
    /\ d_minus' = 0
    /\ max_height' = 0
    /\ min_height' = F64_MAX
    /\ average_altitude' = [n |-> 0, e |-> 0]
    /\ track_length' = 0
    /\ duration' = 0
    /\ seg' = 1
    /\ i' = 1
    /\ calls' = <<>>
    /\ UNCHANGED stats

\* main.rs analyse_gpx lines 51-96: the file is read (a file that cannot be
\* decoded ends the program with exit(-2); one that cannot be opened, or that
\* holds no track, panics), a track is chosen and the "Add time" question
\* answered; read_gpx is entered.
analyse_gpx ==
    /\ pc = "analyse"
    /\ is_gpx_file
    /\ \/ /\ pc' \in {"exit", "panic"}
          /\ UNCHANGED gpxVars
       \/ /\ pc' = "read_gpx"
          /\ \E t \in Tracks, edit \in BOOLEAN, instant \in StartInstants :
                ReadGpxEnter(t, edit, instant)
    /\ UNCHANGED <<mainVars, stdout, splitVars>>

\* PairFailed as it would be had the failure been propagated with `?`: the
\* pair is reported and the run ends.
PairFailedAborts ==
    /\ stdout' = Append(stdout, FailureLine(i - 1, i))
    /\ calls' = Append(calls, Call(seg, i - 1, i, None))
    /\ pc' = "exit"
    /\ UNCHANGED <<track, edit_track_times, now, seg, i, d_plus, d_minus, max_height,
                   min_height, average_altitude, track_length, duration, stats>>

\* utils.rs read_gpx lines 94-96: distance_3d failed; the pair is reported.
PairFailed ==
    /\ stdout' = Append(stdout, FailureLine(i - 1, i))
    /\ calls' = Append(calls, Call(seg, i - 1, i, None))
    /\ i' = i + 1
    /\ pc' = "read_gpx"
    /\ UNCHANGED <<track, edit_track_times, now, seg, d_plus, d_minus, max_height,
                   min_height, average_altitude, track_length, duration, stats>>

\* PairMeasured as it would be with lines 88-91 after line 92: the timestamp
\* is taken once the pair's own duration has been added.
PairMeasuredStampAfter(distance) ==
    LET a == track[seg][i]
        b == track[seg][i + 1]
        upd == ElevationUpdate(a.elevation, b.elevation, Accumulators)
        total == DurationPlus(duration,
                     slope_speed(upd.delta_elevation, Metres(distance), speed_adjustement))
        time == IF IsSome(total) THEN InstantPlus(now, Unwrap(total)) ELSE None
    IN  /\ calls' = Append(calls, Call(seg, i - 1, i, Some(distance)))
        /\ IF (edit_track_times /\ ~IsSome(time)) \/ ~IsSome(total)
           THEN /\ pc' = "panic"
                /\ UNCHANGED <<track, i, d_plus, d_minus, max_height, min_height,
                               average_altitude, track_length, duration>>
           ELSE /\ pc' = "read_gpx"
                /\ track_length' = track_length + distance
                /\ d_plus' = upd.d_plus
                /\ d_minus' = upd.d_minus
                /\ max_height' = upd.max_height
                /\ min_height' = upd.min_height
                /\ average_altitude' = upd.average_altitude
                /\ track' = IF edit_track_times
                            THEN [track EXCEPT ![seg][i].time = time]
                            ELSE track
                /\ duration' = Unwrap(total)
                /\ i' = i + 1
        /\ UNCHANGED <<edit_track_times, now, seg, stats, stdout>>

\* utils.rs read_gpx lines 62-93: distance_3d answered `distance`.
PairMeasured(distance) ==
    LET a == track[seg][i]
        b == track[seg][i + 1]
        upd == ElevationUpdate(a.elevation, b.elevation, Accumulators)
        time == InstantPlus(now, duration)
        total == DurationPlus(duration,
                     slope_speed(upd.delta_elevation, Metres(distance), speed_adjustement))
    IN  /\ calls' = Append(calls, Call(seg, i - 1, i, Some(distance)))
        /\ IF (edit_track_times /\ ~IsSome(time)) \/ ~IsSome(total)
           THEN /\ pc' = "panic"
                /\ UNCHANGED <<track, i, d_plus, d_minus, max_height, min_height,
                               average_altitude, track_length, duration>>
           ELSE /\ pc' = "read_gpx"
                /\ track_length' = track_length + distance
                /\ d_plus' = upd.d_plus
                /\ d_minus' = upd.d_minus
                /\ max_height' = upd.max_height
                /\ min_height' = upd.min_height
                /\ average_altitude' = upd.average_altitude
                /\ track' = IF edit_track_times
                            THEN [track EXCEPT ![seg][i].time = time]
                            ELSE track
                /\ duration' = Unwrap(total)
                /\ i' = i + 1
        /\ UNCHANGED <<edit_track_times, now, seg, stats, stdout>>

\* utils.rs read_gpx lines 58-97: one turn of the inner loop, on the pair of
\* points i - 1 and i (counted from 0) of the current segment.
read_gpx_pair ==
    /\ pc = "read_gpx"
    /\ seg <= Len(track)
    /\ i < Len(track[seg])
    /\ \E result \in DistanceResults :
          IF IsSome(result) THEN PairMeasured(Unwrap(result)) ELSE PairFailed
    /\ UNCHANGED <<mainVars, splitVars>>

\* utils.rs read_gpx lines 55-58: the inner loop is over; the next segment.
read_gpx_segment ==
    /\ pc = "read_gpx"
    /\ seg <= Len(track)
    /\ i >= Len(track[seg])
    /\ seg' = seg + 1
    /\ i' = 1
    /\ UNCHANGED <<pc, mainVars, stdout, splitVars, track, edit_track_times, now,
                   d_plus, d_minus, max_height, min_height, average_altitude,
                   track_length, duration, calls, stats>>

\* utils.rs read_gpx lines 100-108: the PathStats returned.
PathStats ==
    [distance |-> track_length, d_plus |-> d_plus, d_minus |-> d_minus,
     duration |-> duration, min_height |-> min_height, max_height |-> max_height,
     average_altitude |-> average_altitude]

\* utils.rs read_gpx lines 100-109 and main.rs analyse_gpx lines 96-103.
read_gpx_return ==
    /\ pc = "read_gpx"
    /\ seg > Len(track)
    /\ stats' = Some(PathStats)
    /\ pc' = "gpx_done"
    /\ UNCHANGED <<mainVars, stdout, splitVars, track, edit_track_times, now, seg, i,
                   d_plus, d_minus, max_height, min_height, average_altitude,
                   track_length, duration, calls>>

\* ----------------------------------------------------- analyse_by_splits
\* calculate_travel_time as it would be with insert(0, ..) for push: the
\* durations come out in the reverse of the splits' order.
RECURSIVE calculate_travel_timeReversed(_, _, _)
calculate_travel_timeReversed(the_splits, split_length, formula_adjustement) ==
    IF the_splits = <<>> THEN <<>>
    ELSE calculate_travel_timeReversed(Tail(the_splits), split_length, formula_adjustement)
         \o <<slope_speed(Head(the_splits)[1] - Head(the_splits)[2], split_length,
                          formula_adjustement)>>

\* utils.rs calculate_travel_time lines 123-131: the loop pushes one duration
\* per split, in order.
RECURSIVE calculate_travel_time(_, _, _)
calculate_travel_time(the_splits, split_length, formula_adjustement) ==
    IF the_splits = <<>> THEN <<>>
    ELSE <<slope_speed(Head(the_splits)[1] - Head(the_splits)[2], split_length,
                       formula_adjustement)>>
         \o calculate_travel_time(Tail(the_splits), split_length, formula_adjustement)

\* humanize_duration's human(Truncate::..): the duration as shown, cut down to
\* whole units of `unit` seconds.
Human(d, unit) == (d \div unit) * unit

\* main.rs analyse_by_splits lines 140-144: the line printed for one split.
SplitLine(number, d, total) ==
    [kind |-> "split", split_number |-> number, duration |-> Human(d, 1),
     total |-> Human(total, 1)]

\* main.rs analyse_by_splits line 150: the "Total time" line.
TotalLine(total) == [kind |-> "total", total |-> Human(total, 60)]

\* main.rs analyse_by_splits lines 107-122: the "Splits (meters)" prompt
\* refuses a text that does not parse as i32 and asks again; any text that
\* parses is taken.
analyse_by_splits ==
    /\ pc = "analyse"
    /\ ~is_gpx_file
    /\ \E text \in SplitLengthTexts :
          LET result == ParseI32(text)
          IN  IF IsSome(result)
              THEN /\ splits_length' = Unwrap(result)
                   /\ pc' = "load_splits"
                   /\ UNCHANGED validation_error
              ELSE /\ validation_error' = TRUE
                   /\ UNCHANGED <<splits_length, pc>>
    /\ UNCHANGED <<is_gpx_file, speed_adjustement, stdout, gpxVars, splits, times,
                   total_time, split_number, n>>

\* main.rs analyse_by_splits lines 124-136: the splits file is read (a file
\* that cannot be read or decoded panics), the durations are computed and the
\* reporting loop is set up.
load_splits ==
    /\ pc = "load_splits"
    /\ \/ /\ pc' = "panic"
          /\ UNCHANGED <<splits, times, total_time, split_number, n>>
       \/ /\ \E file \in SplitLists :
                /\ splits' = file
                /\ times' = calculate_travel_time(file, splits_length, speed_adjustement)
          /\ total_time' = 0
          /\ split_number' = <<0, 1>>
          /\ n' = 1
          /\ pc' = "report"
    /\ UNCHANGED <<mainVars, stdout, gpxVars, splits_length>>

\* report_split as it would be with `total_time = duration` for `+=`.
report_splitAssign ==
    /\ pc = "report"
    /\ n <= Len(times)
    /\ total_time' = times[n]
    /\ stdout' = Append(stdout, SplitLine(split_number, times[n], times[n]))
    /\ split_number' = <<split_number[1] + 1, split_number[2] + 1>>
    /\ n' = n + 1
    /\ UNCHANGED <<pc, mainVars, gpxVars, splits_length, splits, times>>

\* main.rs analyse_by_splits lines 137-148: one turn of the reporting loop.
\* total_time += duration panics when the seconds overflow u64.
report_split ==
    /\ pc = "report"
    /\ n <= Len(times)
    /\ LET total == DurationPlus(total_time, times[n])
       IN  IF IsSome(total)
           THEN /\ total_time' = Unwrap(total)
                /\ stdout' = Append(stdout, SplitLine(split_number, times[n], Unwrap(total)))
                /\ split_number' = <<split_number[1] + 1, split_number[2] + 1>>
                /\ n' = n + 1
                /\ UNCHANGED pc
           ELSE /\ pc' = "panic"
                /\ UNCHANGED <<total_time, stdout, split_number, n>>
    /\ UNCHANGED <<mainVars, gpxVars, splits_length, splits, times>>

\* main.rs analyse_by_splits line 150: the loop is over; the total is printed.
report_total ==
    /\ pc = "report"
    /\ n > Len(times)
    /\ stdout' = Append(stdout, TotalLine(total_time))
    /\ pc' = "splits_done"
    /\ UNCHANGED <<mainVars, gpxVars, splitVars>>

\* ------------------------------------------------------- specifications
\* The whole program, from main.
Next ==
    \/ get_path
    \/ get_speed_adjustement
    \/ manual_adjustement
    \/ analyse_gpx
    \/ read_gpx_pair
    \/ read_gpx_segment
    \/ read_gpx_return
    \/ analyse_by_splits
    \/ load_splits
    \/ report_split
    \/ report_total

Spec == Init /\ [][Next]_vars

\* Adjustements main can hand to an analysis: the "path" preset, and the
\* values the free-form prompt takes for "-0.5" and "inf".
Adjustements == {TerrainAdjustement("Path")} \cup
                {Unwrap(ParseF32(text)) : text \in {t \in AdjustementTexts : IsSome(ParseF32(t))}}

\* main.rs main line 42: the state in which main calls an analysis.
InitAnalyse(gpx) ==
    /\ pc = "analyse"
    /\ is_gpx_file = gpx
    /\ speed_adjustement \in Adjustements
    /\ validation_error = FALSE
    /\ stdout = <<>>
    /\ track = <<>>
    /\ edit_track_times = FALSE
    /\ now = 0
    /\ seg = 1
    /\ i = 1
    /\ d_plus = 0
    /\ d_minus = 0
    /\ max_height = 0
    /\ min_height = 0
    /\ average_altitude = [n |-> 0, e |-> 0]
    /\ track_length = 0
    /\ duration = 0
    /\ calls = <<>>
    /\ stats = None
    /\ splits_length = 0
    /\ splits = <<>>
    /\ times = <<>>
    /\ total_time = 0
    /\ split_number = <<0, 1>>
    /\ n = 1

\* analyse_gpx and read_gpx, from main's call.
InitGpx == InitAnalyse(TRUE)

NextGpx ==
    \/ analyse_gpx
    \/ read_gpx_pair
    \/ read_gpx_segment
    \/ read_gpx_return

SpecGpx == InitGpx /\ [][NextGpx]_vars

\* analyse_by_splits and calculate_travel_time, from main's call.
InitSplits == InitAnalyse(FALSE)

NextSplits ==
    \/ analyse_by_splits
    \/ load_splits
    \/ report_split
    \/ report_total

SpecSplits == InitSplits /\ [][NextSplits]_vars

\* --------------------------------------------------------------- claims
\* The step just taken made a distance_3d call.
CalledStep == Len(calls') = Len(calls) + 1

\* The step just taken is a pair of read_gpx whose distance could not be computed.
FailedStep == CalledStep /\ ~IsSome(calls'[Len(calls')].result)

\* The step just taken is a pair of read_gpx that was measured and completed.
MeasuredStep == CalledStep /\ IsSome(calls'[Len(calls')].result) /\ pc' = "read_gpx"

\* The distance of the pair just measured, in thousandths of a kilometre.
StepDistance == Unwrap(calls'[Len(calls')].result)

\* Every consecutive pair of the track, as (segment, earlier index, later index).
AllPairs(t) == UNION {{<<s, j - 1, j>> : j \in 1..(Len(t[s]) - 1)} : s \in 1..Len(t)}

\* The pairs the distance_3d calls were made on.
CalledPairs == {<<calls[c].seg, calls[c].a, calls[c].b>> : c \in 1..Len(calls)}

\* The calls were made in the order of the track: segment by segment, pair by pair.
CallsInOrder ==
    \A c \in 1..(Len(calls) - 1) :
        \/ calls[c].seg < calls[c + 1].seg
        \/ calls[c].seg = calls[c + 1].seg /\ calls[c].b = calls[c + 1].a

\* C1: a pair whose distance computation fails changes no accumulator and no
\* timestamp, is reported with its two point indices, and the loop goes on with
\* the next pair: a run that returns has made its call on every pair of every
\* segment, in order, and a failed pair never ends the run.
C1_FailedPairSkipped ==
    /\ [][FailedStep =>
            /\ UNCHANGED <<track_length, duration, d_plus, d_minus, min_height,
                           max_height, average_altitude, track>>
            /\ stdout' = Append(stdout, FailureLine(i - 1, i))
            /\ pc' = "read_gpx" /\ seg' = seg /\ i' = i + 1]_vars
    /\ [](pc = "gpx_done" =>
            /\ CalledPairs = AllPairs(track)
            /\ Len(calls) = Cardinality(AllPairs(track))
            /\ CallsInOrder)
    /\ [](pc \in {"panic", "exit"} /\ calls # <<>> => IsSome(calls[Len(calls)].result))

\* C1 witness: the first pair of the first segment failed, and a pair of the
\* following segment was measured afterwards; the run returned.
C1_Witness ==
    /\ pc = "gpx_done"
    /\ Len(calls) >= 2
    /\ ~IsSome(calls[1].result)
    /\ \E c \in 2..Len(calls) : calls[c].seg > calls[1].seg /\ IsSome(calls[c].result)
    /\ track_length > 0
    /\ stdout = <<FailureLine(0, 1)>>

\* The earlier and the later waypoint of the pair the step just taken was on.
StepA == track[seg][i]

StepB == track[seg][i + 1]

\* C2: a measured pair with a waypoint that has no elevation leaves ascent,
\* descent, min, max and average altitude as they were, and still adds its
\* distance to the total distance and slope_speed(0, metres, adjustement) to
\* the total duration.
C2_MissingElevationSkip ==
    [][MeasuredStep /\ (~IsSome(StepA.elevation) \/ ~IsSome(StepB.elevation)) =>
          /\ UNCHANGED <<d_plus, d_minus, min_height, max_height, average_altitude>>
          /\ track_length' = track_length + StepDistance
          /\ duration' = duration + slope_speed(0, Metres(StepDistance), speed_adjustement)]_vars

\* C2 witness: the pair just measured is 10 m long, its later waypoint has no
\* elevation though the earlier has one, and the duration has grown.
C2_Witness ==
    /\ pc = "read_gpx"
    /\ calls # <<>>
    /\ LET c == calls[Len(calls)]
       IN  /\ c.result = Some(10)
           /\ IsSome(track[c.seg][c.a + 1].elevation)
           /\ ~IsSome(track[c.seg][c.b + 1].elevation)
    /\ duration > 0
    /\ track_length >= 10

\* C3: a measured pair with both elevations changes exactly one of ascent and
\* descent: ascent by delta when delta > 0, descent by -delta when delta <= 0;
\* neither ever decreases, and slope_speed is given the same signed delta.
C3_AscentOrDescent ==
    /\ [][MeasuredStep /\ IsSome(StepA.elevation) /\ IsSome(StepB.elevation) =>
            LET delta == Unwrap(StepB.elevation) - Unwrap(StepA.elevation)
            IN  /\ delta > 0 => d_plus' = d_plus + delta /\ d_minus' = d_minus
                /\ delta <= 0 => d_minus' = d_minus - delta /\ d_plus' = d_plus
                /\ duration' = duration
                       + slope_speed(delta, Metres(StepDistance), speed_adjustement)]_vars
    /\ [][pc = "read_gpx" => d_plus' >= d_plus /\ d_minus' >= d_minus]_vars

\* C3 witness: an ascent and a descent have both been measured.
C3_Witness ==
    /\ pc = "gpx_done"
    /\ d_plus = 6
    /\ d_minus = 6
    /\ duration > 0

\* The waypoints of the track, in the order read_gpx meets them.
Positions == UNION {{<<s, j>> : j \in 1..Len(track[s])} : s \in 1..Len(track)}

\* Waypoint p comes before waypoint q in the track.
Before(p, q) == p[1] < q[1] \/ (p[1] = q[1] /\ p[2] < q[2])

C6_NoPairTrack ==
    pc = "gpx_done" /\ (track = <<>> \/ (Len(track) = 1 /\ Len(track[1]) = 1)) =>
        /\ Unwrap(stats).distance = 0
        /\ Unwrap(stats).d_plus = 0
        /\ Unwrap(stats).d_minus = 0
        /\ Unwrap(stats).duration = 0
        /\ Unwrap(stats).min_height = F64_MAX

\* C6 witness: read_gpx has returned for a track of one waypoint.
C6_Witness ==
    /\ pc = "gpx_done"
    /\ Len(track) = 1
    /\ Len(track[1]) = 1
    /\ IsSome(stats)

\* The later-point elevations of the measured pairs that have both elevations.
LaterElevations ==
    {Unwrap(track[calls[c].seg][calls[c].b + 1].elevation) :
        c \in {d \in 1..Len(calls) :
                 /\ IsSome(calls[d].result)
                 /\ IsSome(track[calls[d].seg][calls[d].a + 1].elevation)
                 /\ IsSome(track[calls[d].seg][calls[d].b + 1].elevation)}}

\* C10: when a measured pair has both elevations, max_height is the largest
\* and min_height the smallest of the later-point elevations of such pairs;
\* with no such pair min_height stays at the sentinel.
C10_MinMaxAltitude ==
    pc = "gpx_done" =>
        IF LaterElevations # {}
        THEN /\ \A e \in LaterElevations : e <= Unwrap(stats).max_height
             /\ Unwrap(stats).max_height \in LaterElevations
             /\ \A e \in LaterElevations : e >= Unwrap(stats).min_height
             /\ Unwrap(stats).min_height \in LaterElevations
        ELSE Unwrap(stats).min_height = F64_MAX

\* The lines printed for the splits, in order.
SplitLines == SelectSeq(stdout, LAMBDA line : line.kind = "split")

\* The sum of the first k entries of a sequence of durations.
RECURSIVE SumFirst(_, _)
SumFirst(ds, k) == IF k = 0 THEN 0 ELSE SumFirst(ds, k - 1) + ds[k]

\* C4: the total printed with the k-th split is the sum of the first k
\* durations, and the total the loop ends with is the sum of them all.
C4_CumulativeTotal ==
    /\ \A k \in 1..Len(SplitLines) :
          /\ SplitLines[k].duration = times[k]
          /\ SplitLines[k].total = SumFirst(times, k)
    /\ pc = "report" => total_time = SumFirst(times, n - 1)
    /\ pc = "splits_done" =>
          /\ Len(SplitLines) = Len(times)
          /\ total_time = SumFirst(times, Len(times))

\* C4 witness: three splits of non-zero duration were reported and the loop
\* has ended.
C4_Witness ==
    /\ pc = "splits_done"
    /\ Len(times) = 3
    /\ \A k \in 1..3 : times[k] > 0
    /\ Len(SplitLines) = 3
    /\ total_time > times[3]

\* C5: calculate_travel_time gives one duration per split, in the splits'
\* order, the i-th being slope_speed(ascent_i - descent_i, split_length,
\* adjustement) whatever the other splits are.
C5_OneDurationPerSplit ==
    /\ Len(times) = Len(splits)
    /\ \A k \in 1..Len(splits) :
          times[k] = slope_speed(splits[k][1] - splits[k][2], splits_length,
                                 speed_adjustement)

\* C5 witness: three splits gave three durations, the first two different.
C5_Witness ==
    /\ pc = "report"
    /\ Len(splits) = 3
    /\ Len(times) = 3
    /\ times[1] # times[2]
    /\ times[1] > 0
    /\ times[2] > 0

\* C8: with a split length of 0 every duration is 0 seconds, for an ascent, a
\* descent or a level split and for every adjustement, and the total stays 0.
C8_ZeroDistance ==
    pc \in {"report", "splits_done"} /\ splits_length = 0 =>
        /\ \A k \in 1..Len(times) : times[k] = 0
        /\ total_time = 0

\* C8 witness: an ascent, a descent and a level split of length 0 were timed,
\* under an infinite adjustement, and reported.
C8_Witness ==
    /\ pc = "splits_done"
    /\ splits_length = 0
    /\ splits = <<(<<5, 0>>), (<<0, 3>>), (<<2, 2>>)>>
    /\ speed_adjustement = PInf
    /\ Len(times) = 3

\* C7: no analysis runs with a negative adjustement or a negative split length.
C7_ConfigurationRejected ==
    /\ pc \in {"read_gpx", "gpx_done", "report", "splits_done"} =>
          ~(speed_adjustement.k = "fin" /\ speed_adjustement.v < 0)
    /\ pc \in {"report", "splits_done"} => splits_length >= 0
=============================================================================
